---- MODULE Spec2Model ----
(***************************************************************************)
(* A model of panopto.py: the SAML negotiation, the Google Drive token     *)
(* store, the two retried Drive helpers and the sync loop of __main__.     *)
(* One action per request / statement group of the script; the Drive and   *)
(* the Panopto site are the environment, their answers drawn with \E.      *)
(***************************************************************************)
EXTENDS Integers, Sequences, FiniteSets, TLC

\* ------------------------------------------------------------------ bounds
\* Longest folder list the Panopto folders endpoint answers with.
MaxFolders == 2
\* A Drive call may fail on attempts 1 .. MaxAttempts - 1 of one helper call.
MaxAttempts == 5

\* ------------------------------------------------- configuration constants
GOOGLE_DRIVE_FOLDER_NAME == "Panopto Videos"
\* video_limit passed to get_folder_videos
VideoLimit == 50
\* @retry(wait_exponential_multiplier=1000, wait_exponential_max=10000)
wait_exponential_multiplier == 1000
wait_exponential_max == 10000

\* parent_folder=None
None == 0

\* -------------------------------------------------------------- the source
\* The folders the Panopto account can see.  Status is the HTTP status of the
\* GetSessions call for the folder, Results the SessionName of each result.
SourceFolders ==
  { [Id |-> 1, Name |-> "CSE 143 Au21", SessionCount |-> 5, Status |-> 200,
     Results |-> <<"A", "B", "C">>],
    [Id |-> 2, Name |-> "MATH 124", SessionCount |-> 5, Status |-> 200,
     Results |-> <<"A">>],
    [Id |-> 3, Name |-> "CSE 142", SessionCount |-> 0, Status |-> 200,
     Results |-> <<>>],
    [Id |-> 4, Name |-> "CSE 143 Au21", SessionCount |-> 2, Status |-> 200,
     Results |-> <<"A", "A">>],
    [Id |-> 5, Name |-> "CSE 490 TA", SessionCount |-> 1, Status |-> 500,
     Results |-> <<>>] }

\* Sequences of distinct source folders, at most MaxFolders long.
RECURSIVE FolderLists(_)
FolderLists(n) ==
  IF n = 0 THEN { <<>> }
  ELSE LET shorter == FolderLists(n - 1)
       IN  shorter \cup
           { Append(p[1], p[2]) :
               p \in { q \in shorter \X SourceFolders :
                         /\ Len(q[1]) = n - 1
                         /\ \A i \in 1..Len(q[1]) : q[1][i].Id # q[2].Id } }

\* What the Drive may hold before the first run: nothing, or somebody's
\* archive folder with a course folder inside it.
InitialDrives ==
  { {},
    { [id |-> 1, name |-> "Archive", parent |-> None],
      [id |-> 2, name |-> "CSE 143 Au21", parent |-> 1] } }

VARIABLES
  folders,            \* the answer of the folders endpoint (fixed per behaviour)
  ONLY_SAVE_CSE_VIDEOS,
  driveFolders,       \* Drive: set of [id, name, parent]
  driveFiles,         \* Drive: set of [id, name, parent]
  tokenFile,          \* token.pickle: "absent" | "present"
  pc,                 \* position of the script
  err,                \* the exception that ended the run, or "none"
  cookies,            \* client.cookies
  authed_client,      \* TRUE once negotiate_saml has returned the session
  saml_response,      \* text of the credential POST's answer
  saml_response_value,
  creds,              \* google_drive_auth's local: how the credential was got
  token_written,      \* google_drive_auth wrote token.pickle in this call
  drive_service,
  panopto_folder_id,
  fi,                 \* index of `folder` in folders; 0: `folder` is unbound
  videos,
  folder_id,
  vi,                 \* index of the current video in videos
  file_exists,
  g_status,           \* status of the video download's answer; 0: none held
  attempt,            \* retrying: attempt_number of the running helper call
  phase,              \* "idle" | "list" | "create" | "wait" | "ret"
  sleep,              \* retrying: the last computed wait, in ms
  ret,                \* the helper's return value
  found,              \* the helper returned response['files'][0]['id']
  driveFailed,        \* a Drive request of the running helper call has failed
  issued,             \* history: kinds of request issued in this run
  prev,               \* history: how the previous run ended
  drive0,             \* history: the Drive folders before the first run
  cfReturns,          \* history: [name, parent, id] of the returns so far of
                      \* create_folder_if_not_exists, over all runs
  enumerated,         \* history: folder indexes listed in this run
  synced,             \* history: folder indexes whose video loop finished
  destNames0,         \* history: item names in folder_id when it was resolved
  folderUps,          \* history: names uploaded for the current folder
  folderDls,          \* history: videos downloaded for the current folder
  runUps,             \* history: number of uploads of this run
  resolves            \* history: [folder, id] of the destination folders resolved

srcVars   == <<folders, ONLY_SAVE_CSE_VIDEOS>>
driveVars == <<driveFolders, driveFiles>>
negVars   == <<cookies, authed_client, saml_response, saml_response_value>>
authVars  == <<tokenFile, creds, token_written, drive_service>>
loopVars  == <<panopto_folder_id, fi, videos, folder_id, vi, file_exists,
               g_status>>
opVars    == <<attempt, phase, sleep, ret, found, driveFailed>>
histVars  == <<prev, drive0, cfReturns, enumerated, synced, destNames0,
               folderUps, folderDls, runUps, resolves>>
vars == <<srcVars, driveVars, negVars, authVars, loopVars, opVars, histVars,
          pc, err, issued>>

\* ------------------------------------------------------------ pure helpers
\* Python's `sub in s` on strings.
Contains(sub, s) ==
  \E i \in 1..(Len(s) - Len(sub) + 1) : SubSeq(s, i, i + Len(sub) - 1) = sub

\* The first n elements of a sequence (maxResults of the GetSessions query).
Take(s, n) == SubSeq(s, 1, IF Len(s) < n THEN Len(s) ELSE n)

RECURSIVE Pow2(_)
Pow2(n) == IF n = 0 THEN 1 ELSE 2 * Pow2(n - 1)

\* exponential_sleep with the comparison against the maximum left out.
exponential_sleep_uncapped(previous_attempt_number) ==
  wait_exponential_multiplier * Pow2(previous_attempt_number)

\* retrying.Retrying.exponential_sleep(previous_attempt_number, _), with the
\* decorator's multiplier and maximum.
exponential_sleep(previous_attempt_number) ==
  LET exp    == Pow2(previous_attempt_number)
      result == wait_exponential_multiplier * exp
      capped == IF result > wait_exponential_max
                THEN wait_exponential_max ELSE result
  IN  IF capped < 0 THEN 0 ELSE capped

\* The wrapper as @retry(stop_max_attempt_number=3, ...) would make it.
should_stop_after_three(attempt_number) == attempt_number >= 3

\* retrying.Retrying.stop: the decorator gives neither stop_max_attempt_number
\* nor stop_max_delay, so no stop function is installed.
should_stop(attempt_number) == FALSE

\* The folder filter of the sync loop.
\* The filter with the name test left out.
QualifiesAnyName(folder) == folder.SessionCount > 0

Qualifies(folder) ==
  /\ folder.SessionCount > 0
  /\ (~ONLY_SAVE_CSE_VIDEOS \/ Contains("CSE", folder.Name))

\* get_folder_videos: None on a non-200 status, else up to video_limit names.
NoVideos == [none |-> TRUE, items |-> <<>>]
get_folder_videos(folder, video_limit) ==
  IF folder.Status # 200
  THEN NoVideos
  ELSE [none |-> FALSE, items |-> Take(folder.Results, video_limit)]

\* The folder query restricted to folders without a parent.
FolderQueryRootOnly(folder_name) ==
  { f \in driveFolders : f.name = folder_name /\ f.parent = None }

\* files().list(q='mimeType="...folder" and name="{}"'): the folders the
\* query of create_folder_if_not_exists matches.
FolderQuery(folder_name) ==
  { f \in driveFolders : f.name = folder_name }

\* The item query with the parent left out.
FileQueryAnyParent(file_name, parent_folder) ==
  { f \in driveFiles : f.name = file_name \o ".mp4" }

\* The item query with the extension left out of the name.
FileQueryNoExtension(file_name, parent_folder) ==
  { f \in driveFiles : f.parent = parent_folder /\ f.name = file_name }

\* files().list(q='"{}" in parents and name="{}.mp4"'): the items the query of
\* check_if_file_exists matches.
FileQuery(file_name, parent_folder) ==
  { f \in driveFiles : f.parent = parent_folder /\ f.name = file_name \o ".mp4" }

\* The id the Drive gives the next created object.
RECURSIVE MaxId(_)
MaxId(S) ==
  IF S = {} THEN 0
  ELSE LET x == CHOOSE y \in S : TRUE
           m == MaxId(S \ {x})
       IN  IF x.id > m THEN x.id ELSE m
NewId == MaxId(driveFolders \cup driveFiles) + 1

\* The first checkpoint with the JSESSIONID assert left out.
FirstCheckpointTwoCookies(cookie_dict) ==
  /\ "_csrf_token" \in cookie_dict
  /\ "bbbbbbbbbbbbbbb" \in cookie_dict

\* The cookie checkpoints of negotiate_saml.
FirstCheckpoint(cookie_dict) ==
  /\ "_csrf_token" \in cookie_dict
  /\ "bbbbbbbbbbbbbbb" \in cookie_dict
  /\ "JSESSIONID" \in cookie_dict
SecondCheckpoint(cookie_dict) == ".ASPXAUTH" \in cookie_dict

\* The parse with the missing field read as an empty value instead of raising.
soup_find_value_lenient(text) ==
  IF text = "with_field" THEN "assertion" ELSE ""

\* soup.find('input', {'name': 'SAMLResponse'})['value']: subscripting the
\* None that find returns for a page without the field raises TypeError.
soup_find_value(text) ==
  IF text = "with_field" THEN "assertion" ELSE "TypeError"

\* An AssertionError that is caught and logged, the script going on.
RaiseSwallowAssertion(e) ==
  /\ pc' = IF e = "AssertionError" THEN "drive_auth" ELSE "failed"
  /\ err' = e

\* A transfer error that is caught per video, the loop going on.
RaiseContinueTransfer(e) ==
  /\ pc' = IF e \in {"ConnectionError", "HttpError"}
           THEN "video_loop" ELSE "failed"
  /\ err' = e

\* An exception nobody catches ends the process.
Raise(e) == pc' = "failed" /\ err' = e

Issue(kind) == issued' = issued \cup {kind}

\* The arguments of the running create_folder_if_not_exists call.
folder_name ==
  IF pc = "root_folder" THEN GOOGLE_DRIVE_FOLDER_NAME ELSE folders[fi].Name
parent_folder ==
  IF pc = "root_folder" THEN None ELSE panopto_folder_id
InCreateFolder == pc \in {"root_folder", "dest_folder"}
\* The global `folder` is bound once the for loop has started.
FolderIsBound == fi >= 1
\* The video of the current iteration of the inner loop.
video_name == videos.items[vi]

\* The retry wrapper calls the decorated function for the first time.
StartCall ==
  /\ attempt' = 1
  /\ phase' = "list"
  /\ sleep' = 0
  /\ ret' = 0
  /\ found' = FALSE
  /\ driveFailed' = FALSE
\* The caller has taken the return value.
EndCall ==
  /\ attempt' = 0
  /\ phase' = "idle"
  /\ sleep' = 0
  /\ ret' = 0
  /\ found' = FALSE
  /\ driveFailed' = FALSE

\* -------------------------------------------------------------------- Init
FreshProcess ==
  /\ pc = "saml_get"
  /\ err = "none"
  /\ cookies = {}
  /\ authed_client = FALSE
  /\ saml_response = "none"
  /\ saml_response_value = "unset"
  /\ creds = "none"
  /\ token_written = FALSE
  /\ drive_service = FALSE
  /\ panopto_folder_id = None
  /\ fi = 0
  /\ videos = NoVideos
  /\ folder_id = None
  /\ vi = 0
  /\ file_exists = FALSE
  /\ g_status = 0
  /\ attempt = 0
  /\ phase = "idle"
  /\ sleep = 0
  /\ ret = 0
  /\ found = FALSE
  /\ driveFailed = FALSE
  /\ issued = {}
  /\ enumerated = {}
  /\ synced = {}
  /\ destNames0 = {}
  /\ folderUps = <<>>
  /\ folderDls = <<>>
  /\ runUps = 0
  /\ resolves = <<>>

Init ==
  /\ folders \in FolderLists(MaxFolders)
  /\ ONLY_SAVE_CSE_VIDEOS \in BOOLEAN
  /\ driveFolders \in InitialDrives
  /\ driveFiles = {}
  /\ drive0 = driveFolders
  /\ cfReturns = {}
  /\ tokenFile \in {"absent", "present"}
  /\ prev = "none"
  /\ FreshProcess

\* ---------------------------------------------------------- negotiate_saml
\* client.get('https://canvas.uw.edu/login/saml/83') and the three asserts.
SamlRequest ==
  /\ pc = "saml_get"
  /\ \E got \in SUBSET {"_csrf_token", "bbbbbbbbbbbbbbb", "JSESSIONID"} :
       /\ cookies' = cookies \cup got
       /\ IF FirstCheckpoint(cookies')
          THEN pc' = "cred_post" /\ err' = err
          ELSE Raise("AssertionError")
  /\ Issue("saml_get")
  /\ UNCHANGED <<srcVars, driveVars, authVars, loopVars, opVars, histVars,
                 authed_client, saml_response, saml_response_value>>

\* client.post(saml_request.url, data=payload) and the parse of its answer.
SignIn ==
  /\ pc = "cred_post"
  /\ \E text \in {"with_field", "without_field"} :
       /\ saml_response' = text
       /\ saml_response_value' = soup_find_value(text)
       /\ IF saml_response_value' = "TypeError"
          THEN Raise("TypeError")
          ELSE pc' = "saml_end" /\ err' = err
  /\ Issue("cred_post")
  /\ UNCHANGED <<srcVars, driveVars, authVars, loopVars, opVars, histVars,
                 cookies, authed_client>>

\* client.post('https://canvas.uw.edu/login/saml', data={'SAMLResponse': ...})
SamlEnd ==
  /\ pc = "saml_end"
  /\ pc' = "panopto_request"
  /\ Issue("assertion_post")
  /\ UNCHANGED <<srcVars, driveVars, negVars, authVars, loopVars, opVars,
                 histVars, err>>

\* client.get(<Panopto login page>), the last assert and the return.
PanoptoRequest ==
  /\ pc = "panopto_request"
  /\ \E got \in SUBSET {".ASPXAUTH"} :
       /\ cookies' = cookies \cup got
       /\ IF SecondCheckpoint(cookies')
          THEN pc' = "drive_auth" /\ err' = err /\ authed_client' = TRUE
          ELSE Raise("AssertionError") /\ authed_client' = authed_client
  /\ Issue("landing_get")
  /\ UNCHANGED <<srcVars, driveVars, authVars, loopVars, opVars, histVars,
                 saml_response, saml_response_value>>

\* ------------------------------------------------------- google_drive_auth
\* The save moved into the else branch: only the browser flow's credential
\* is pickled.
SavesTokenGrantOnly(how) == how = "granted"

\* pickle.dump(creds, token) stands inside `if not creds or not creds.valid`,
\* after the refresh and the browser flow: it runs for a credential got in
\* either way and not for one loaded valid.
SavesToken(how) == how \in {"refreshed", "granted"}

\* The whole function: load token.pickle if it exists; when the credential is
\* missing or not valid, refresh it or run the browser flow, then pickle it.
google_drive_auth ==
  /\ pc = "drive_auth"
  /\ \E loaded \in (IF tokenFile = "present"
                    THEN {"valid", "expired_refreshable", "unusable"}
                    ELSE {"none"}),
        ok \in BOOLEAN :
       LET how == IF loaded = "valid" THEN "loaded"
                  ELSE IF loaded = "expired_refreshable" THEN "refreshed"
                  ELSE "granted"
       IN  IF how = "loaded" \/ ok
           THEN /\ how = "loaded" => ok
                /\ creds' = how
                /\ token_written' = SavesToken(how)
                /\ tokenFile' = IF SavesToken(how) THEN "present" ELSE tokenFile
                /\ pc' = "build" /\ err' = err
           ELSE /\ Raise(IF how = "refreshed"
                         THEN "RefreshError" ELSE "GrantError")
                /\ UNCHANGED <<tokenFile, token_written, creds>>
  /\ Issue("drive_auth")
  /\ UNCHANGED <<srcVars, driveVars, negVars, loopVars, opVars, histVars,
                 drive_service>>

\* drive_service = build('drive', 'v3', credentials=drive_creds), and the
\* call of create_folder_if_not_exists(GOOGLE_DRIVE_FOLDER_NAME, drive_service).
BuildService ==
  /\ pc = "build"
  /\ drive_service' = TRUE
  /\ creds' = "none"
  /\ token_written' = FALSE
  /\ pc' = "root_folder"
  /\ StartCall
  /\ UNCHANGED <<srcVars, driveVars, negVars, loopVars, histVars, tokenFile,
                 err, issued>>

\* ---------------------------------------------- the retry wrapper (@retry)
\* retrying.Retrying.call after an attempt ended in an exception: every
\* exception is retried; unless the stop function says stop, sleep
\* exponential_sleep(attempt_number) ms and call the function again.
RetryWait ==
  /\ pc \in {"root_folder", "dest_folder", "check"}
  /\ phase = "wait"
  /\ IF should_stop(attempt)
     THEN /\ Raise("RetryError")
          /\ EndCall
     ELSE /\ sleep' = exponential_sleep(attempt)
          /\ attempt' = attempt + 1
          /\ phase' = "list"
          /\ UNCHANGED <<pc, err, ret, found, driveFailed>>
  /\ UNCHANGED <<srcVars, driveVars, negVars, authVars, loopVars, histVars,
                 issued>>

\* --------------------------------------------- create_folder_if_not_exists
\* The list query and the branch on response['files']: a failed request goes
\* to the retry wrapper, a match is returned, no match goes on to create.
CreateFolderList ==
  /\ InCreateFolder
  /\ phase = "list"
  /\ \E ok \in BOOLEAN :
       IF ~ok
       THEN /\ attempt < MaxAttempts
            /\ phase' = "wait"
            /\ driveFailed' = TRUE
            /\ UNCHANGED <<ret, found>>
       ELSE LET files == FolderQuery(folder_name)
            IN  IF files = {}
                THEN phase' = "create" /\ UNCHANGED <<ret, found, driveFailed>>
                ELSE \E f \in files :
                       /\ ret' = f.id
                       /\ found' = TRUE
                       /\ phase' = "ret"
                       /\ UNCHANGED driveFailed
  /\ Issue("drive_list")
  /\ UNCHANGED <<srcVars, driveVars, negVars, authVars, loopVars, histVars,
                 pc, err, attempt, sleep>>

\* files().create(body=file_metadata) and the logging.info after it, which
\* formats folder['Name'] of the global `folder`: a NameError while the loop
\* of __main__ has not started, caught by the retry wrapper.
CreateFolderCreate ==
  /\ InCreateFolder
  /\ phase = "create"
  /\ \E ok \in BOOLEAN :
       IF ~ok
       THEN /\ attempt < MaxAttempts
            /\ phase' = "wait"
            /\ driveFailed' = TRUE
            /\ UNCHANGED <<driveFolders, ret, found>>
       ELSE /\ driveFolders' = driveFolders \cup
                 { [id |-> NewId, name |-> folder_name,
                    parent |-> parent_folder] }
            /\ UNCHANGED driveFailed
            /\ IF FolderIsBound
               THEN /\ ret' = NewId
                    /\ found' = FALSE
                    /\ phase' = "ret"
               ELSE /\ phase' = "wait"
                    /\ UNCHANGED <<ret, found>>
  /\ Issue("drive_create_folder")
  /\ UNCHANGED <<srcVars, driveFiles, negVars, authVars, loopVars, histVars,
                 pc, err, attempt, sleep>>

\* ---------------------------------------------------- check_if_file_exists
CheckFileList ==
  /\ pc = "check"
  /\ phase = "list"
  /\ \E ok \in BOOLEAN :
       IF ~ok
       THEN /\ attempt < MaxAttempts
            /\ phase' = "wait"
            /\ driveFailed' = TRUE
            /\ UNCHANGED <<ret, found>>
       ELSE /\ ret' = (FileQuery(video_name, folder_id) # {})
            /\ found' = FALSE
            /\ phase' = "ret"
            /\ UNCHANGED driveFailed
  /\ Issue("drive_list")
  /\ UNCHANGED <<srcVars, driveVars, negVars, authVars, loopVars, histVars,
                 pc, err, attempt, sleep>>

\* ---------------------------------------------------------------- __main__
\* panopto_folder_id = create_folder_if_not_exists(...) has returned.
RootFolderReturn ==
  /\ pc = "root_folder"
  /\ phase = "ret"
  /\ panopto_folder_id' = ret
  /\ pc' = "folders_get"
  /\ EndCall
  /\ cfReturns' = cfReturns \cup
       { [name |-> folder_name, parent |-> parent_folder, id |-> ret] }
  /\ UNCHANGED <<srcVars, driveVars, negVars, authVars, fi, videos, folder_id,
                 vi, file_exists, g_status, err, issued, prev, drive0,
                 enumerated, synced, destNames0, folderUps, folderDls, runUps,
                 resolves>>

\* authed_client.get(<folders endpoint>) and .json(); a request that raises
\* ends the run.
FoldersRequest ==
  /\ pc = "folders_get"
  /\ \E ok \in BOOLEAN :
       IF ok THEN pc' = "loop" /\ err' = err
             ELSE Raise("RequestException")
  /\ Issue("folders_get")
  /\ UNCHANGED <<srcVars, driveVars, negVars, authVars, loopVars, opVars,
                 histVars>>

\* The head of `for folder in folders` and the filter under it.
ForFolder ==
  /\ pc = "loop"
  /\ IF fi = Len(folders)
     THEN pc' = "done" /\ fi' = fi
     ELSE /\ fi' = fi + 1
          /\ pc' = IF Qualifies(folders[fi + 1]) THEN "get_videos" ELSE "loop"
  /\ UNCHANGED <<srcVars, driveVars, negVars, authVars, opVars, histVars,
                 panopto_folder_id, videos, folder_id, vi, file_exists,
                 g_status, err,
                 issued>>

\* The loop without the None check: iterating over None raises TypeError.
OnVideosNoneUnchecked == pc' = "failed" /\ err' = "TypeError" /\ UNCHANGED opVars

\* The loop going on to the destination folder although videos is None.
OnVideosNoneResolves == pc' = "dest_folder" /\ err' = err /\ StartCall

\* What the loop does with videos is None.
OnVideosNone == pc' = "loop" /\ err' = err /\ UNCHANGED opVars

\* videos = get_folder_videos(folder['Id'], 50, authed_client); a None is
\* skipped, otherwise create_folder_if_not_exists(folder['Name'], ...) is called.
GetFolderVideos ==
  /\ pc = "get_videos"
  /\ videos' = get_folder_videos(folders[fi], VideoLimit)
  /\ enumerated' = enumerated \cup {fi}
  /\ IF videos' = NoVideos
     THEN OnVideosNone
     ELSE pc' = "dest_folder" /\ err' = err /\ StartCall
  /\ Issue("sessions_post")
  /\ UNCHANGED <<srcVars, driveVars, negVars, authVars, panopto_folder_id, fi,
                 folder_id, vi, file_exists, g_status, prev, drive0, cfReturns,
                 synced, destNames0, folderUps, folderDls, runUps, resolves>>

\* folder_id = create_folder_if_not_exists(...) has returned.
DestFolderReturn ==
  /\ pc = "dest_folder"
  /\ phase = "ret"
  /\ folder_id' = ret
  /\ vi' = 0
  /\ pc' = "video_loop"
  /\ EndCall
  /\ destNames0' = { f.name : f \in { g \in driveFiles : g.parent = ret } }
  /\ folderUps' = <<>>
  /\ folderDls' = <<>>
  /\ cfReturns' = cfReturns \cup
       { [name |-> folder_name, parent |-> parent_folder, id |-> ret] }
  /\ resolves' = Append(resolves, [folder |-> fi, id |-> ret])
  /\ UNCHANGED <<srcVars, driveVars, negVars, authVars, panopto_folder_id, fi,
                 videos, file_exists, g_status, prev, drive0, enumerated,
                 synced, runUps, err, issued>>

\* The head of `for video_url, video_name in videos`, and the call of
\* check_if_file_exists(video_name, drive_service, folder_id).
ForVideo ==
  /\ pc = "video_loop"
  /\ IF vi = Len(videos.items)
     THEN /\ pc' = "loop"
          /\ synced' = synced \cup {fi}
          /\ UNCHANGED <<vi, opVars>>
     ELSE /\ vi' = vi + 1
          /\ pc' = "check"
          /\ StartCall
          /\ UNCHANGED synced
  /\ UNCHANGED <<srcVars, driveVars, negVars, authVars, panopto_folder_id, fi,
                 videos, folder_id, file_exists, g_status, prev, drive0,
                 cfReturns, enumerated, destNames0, folderUps, folderDls,
                 runUps, resolves, err, issued>>

\* The branch on file_exists with the skip left out: every video is fetched.
AfterCheckAlwaysFetch(exists) == "download"

\* if file_exists: skip (log only); else: fetch and upload.
AfterCheck(exists) == IF exists THEN "video_loop" ELSE "download"

\* file_exists = check_if_file_exists(...) has returned, and the branch on it.
CheckReturn ==
  /\ pc = "check"
  /\ phase = "ret"
  /\ file_exists' = ret
  /\ pc' = AfterCheck(ret)
  /\ EndCall
  /\ UNCHANGED <<srcVars, driveVars, negVars, authVars, histVars,
                 panopto_folder_id, fi, videos, folder_id, vi, g_status, err,
                 issued>>

\* g = requests.get(video_url): the request raises, which ends the run, or it
\* is answered; requests.get returns an answer of any status without raising,
\* and the script does not look at the status.
Download ==
  /\ pc = "download"
  /\ \E outcome \in {0, 200, 404} :      \* 0: no answer, the request raises
       IF outcome = 0
       THEN /\ Raise("ConnectionError")
            /\ UNCHANGED <<folderDls, g_status>>
       ELSE /\ pc' = "upload" /\ err' = err
            /\ g_status' = outcome
            /\ folderDls' = Append(folderDls, video_name)
  /\ Issue("video_get")
  /\ UNCHANGED <<srcVars, driveVars, negVars, authVars, opVars,
                 panopto_folder_id, fi, videos, folder_id, vi, file_exists,
                 prev, drive0, cfReturns, enumerated, synced, destNames0,
                 folderUps, runUps, resolves>>

\* The name of the uploaded item without the extension.
UploadNameNoExtension(name) == name

\* 'name': video_name + '.mp4'
UploadName(name) == name \o ".mp4"

\* drive_service.files().create(body={'name': video_name + '.mp4',
\* 'parents': [folder_id]}, media_body=media) with the bytes of g.content,
\* whatever they are; a failure ends the run.  g is not read again before the
\* next requests.get.
Upload ==
  /\ pc = "upload"
  /\ \E ok \in BOOLEAN :
       IF ok
       THEN /\ driveFiles' = driveFiles \cup
                 { [id |-> NewId, name |-> UploadName(video_name),
                    parent |-> folder_id] }
            /\ folderUps' = Append(folderUps, UploadName(video_name))
            /\ runUps' = runUps + 1
            /\ g_status' = 0
            /\ pc' = "video_loop" /\ err' = err
       ELSE /\ Raise("HttpError")
            /\ UNCHANGED <<driveFiles, folderUps, runUps, g_status>>
  /\ Issue("drive_upload")
  /\ UNCHANGED <<srcVars, driveFolders, negVars, authVars, opVars,
                 panopto_folder_id, fi, videos, folder_id, vi, file_exists,
                 prev, drive0, cfReturns, enumerated, synced, destNames0,
                 folderDls, resolves>>

\* The script is started again: a new process over the same source, the Drive
\* and token.pickle as the last run left them.
Restart ==
  /\ pc \in {"done", "failed"}
  /\ prev' = IF pc = "done" THEN "completed" ELSE "aborted"
  /\ pc' = "saml_get"
  /\ err' = "none"
  /\ cookies' = {}
  /\ authed_client' = FALSE
  /\ saml_response' = "none"
  /\ saml_response_value' = "unset"
  /\ creds' = "none"
  /\ token_written' = FALSE
  /\ drive_service' = FALSE
  /\ panopto_folder_id' = None
  /\ fi' = 0
  /\ videos' = NoVideos
  /\ folder_id' = None
  /\ vi' = 0
  /\ file_exists' = FALSE
  /\ g_status' = 0
  /\ attempt' = 0
  /\ phase' = "idle"
  /\ sleep' = 0
  /\ ret' = 0
  /\ found' = FALSE
  /\ driveFailed' = FALSE
  /\ issued' = {}
  /\ enumerated' = {}
  /\ synced' = {}
  /\ destNames0' = {}
  /\ folderUps' = <<>>
  /\ folderDls' = <<>>
  /\ runUps' = 0
  /\ resolves' = <<>>
  /\ UNCHANGED <<srcVars, driveVars, tokenFile, drive0, cfReturns>>

Next ==
  \/ SamlRequest
  \/ SignIn
  \/ SamlEnd
  \/ PanoptoRequest
  \/ google_drive_auth
  \/ BuildService
  \/ RetryWait
  \/ CreateFolderList
  \/ CreateFolderCreate
  \/ CheckFileList
  \/ RootFolderReturn
  \/ FoldersRequest
  \/ ForFolder
  \/ GetFolderVideos
  \/ DestFolderReturn
  \/ ForVideo
  \/ CheckReturn
  \/ Download
  \/ Upload
  \/ Restart

Spec == Init /\ [][Next]_vars

\* The script runs alone and every request ends: a step that can be taken is
\* taken.
FairSpec == Spec /\ WF_vars(Next)

\* ================================================================== claims
SyncCalls ==
  {"drive_auth", "drive_list", "drive_create_folder", "drive_upload",
   "folders_get", "sessions_post", "video_get"}
FolderNames(S) == { f.name : f \in S }
\* A call of create_folder_if_not_exists is about to return.
CreateFolderReturning == InCreateFolder /\ phase = "ret"

\* C1: for a name no folder of the initial Drive has, every return of
\* create_folder_if_not_exists(name, parent) gives the id every earlier call
\* with the same (name, parent) gave, and the Drive then holds exactly one
\* folder of that name; between the calls it never holds two.
C1_EnsureFolderIdempotent ==
  /\ \A f, g \in driveFolders :
       (f.name = g.name /\ f.name \notin FolderNames(drive0)) => f = g
  /\ (CreateFolderReturning /\ folder_name \notin FolderNames(drive0)) =>
       /\ Cardinality({ f \in driveFolders : f.name = folder_name }) = 1
       /\ \A r \in cfReturns :
            (r.name = folder_name /\ r.parent = parent_folder) => r.id = ret
\* A second call with the same (name, parent) returns.
C1_Witness ==
  /\ CreateFolderReturning
  /\ folder_name \notin FolderNames(drive0)
  /\ \E r \in cfReturns : r.name = folder_name /\ r.parent = parent_folder

\* The video loop of the current folder has run to its end.
FolderFinished == pc \in {"loop", "done"} /\ fi >= 1 /\ fi \in synced
\* The current folder lists A, B, C and its Drive folder held A.mp4 and B.mp4
\* but not C.mp4 when it was resolved.
ABCase ==
  /\ pc \in {"video_loop", "check", "download", "upload"} \/ FolderFinished
  /\ videos.items = <<"A", "B", "C">>
  /\ destNames0 = {"A.mp4", "B.mp4"}

\* C2: over a listing A, B, C whose Drive folder already holds A.mp4 and
\* B.mp4 the run downloads and uploads nothing but C, and exactly C once the
\* folder is finished; and a run that follows a completed run uploads nothing.
C2_UploadsOnlyMissing ==
  /\ ABCase =>
       /\ folderUps \in {<<>>, <<"C.mp4">>}
       /\ folderDls \in {<<>>, <<"C">>}
       /\ FolderFinished => (folderUps = <<"C.mp4">> /\ folderDls = <<"C">>)
  /\ prev = "completed" => (runUps = 0 /\ "drive_upload" \notin issued)
C2_Witness ==
  /\ ABCase
  /\ FolderFinished
  /\ folderUps = <<"C.mp4">>

\* C3: a folder whose listing answered non-200 leaves videos None and the run
\* at the loop head without an error, and a run that ends normally has listed
\* every qualifying folder and synchronized each one whose listing answered 200.
C3_ListingFailureSkipsFolder ==
  /\ (fi >= 1 /\ fi \in enumerated /\ folders[fi].Status # 200) =>
       (pc \in {"loop", "done"} /\ err = "none" /\ videos.none)
  /\ pc = "done" =>
       \A i \in 1..Len(folders) :
         Qualifies(folders[i]) =>
           /\ i \in enumerated
           /\ (folders[i].Status = 200 => i \in synced)
\* A run ended normally after skipping a folder and uploading for a later one.
C3_Witness ==
  /\ pc = "done"
  /\ \E i \in enumerated, j \in synced : i < j /\ folders[i].Status # 200
  /\ Len(folderUps) > 0

C5_StopsBeyondCap ==
  (phase = "list" /\ attempt > 1) => 1000 * Pow2(attempt - 1) <= 10000

C7_FoundUnderParent ==
  (CreateFolderReturning /\ found /\ parent_folder # None) =>
    \E f \in driveFolders :
      f.id = ret /\ f.name = folder_name /\ f.parent = parent_folder

\* C8: the session is returned only with the three login cookies and
\* .ASPXAUTH in the jar; a missing cookie after its GET has failed the call;
\* credentials are POSTed only after the three login cookies were seen.
C8_CookieCheckpoints ==
  LET three == {"_csrf_token", "bbbbbbbbbbbbbbb", "JSESSIONID"}
  IN  /\ authed_client => (three \subseteq cookies /\ ".ASPXAUTH" \in cookies)
      /\ ("saml_get" \in issued /\ ~(three \subseteq cookies)) =>
           (pc = "failed" /\ err = "AssertionError" /\ "cred_post" \notin issued)
      /\ ("landing_get" \in issued /\ ".ASPXAUTH" \notin cookies) =>
           (pc = "failed" /\ err = "AssertionError" /\ ~authed_client)
C8_Witness ==
  /\ pc = "failed"
  /\ err = "AssertionError"
  /\ cookies = {"_csrf_token", "bbbbbbbbbbbbbbb"}

\* C9: when the answer to the credential POST has no SAMLResponse field the
\* call has failed with the TypeError, the assertion was not POSTed, the
\* landing page was not requested and no session was returned.
C9_NoAssertionNoSession ==
  saml_response = "without_field" =>
    /\ pc = "failed"
    /\ err = "TypeError"
    /\ "assertion_post" \notin issued
    /\ "landing_get" \notin issued
    /\ ~authed_client
C9_Witness ==
  /\ saml_response = "without_field"
  /\ "cred_post" \in issued
  /\ pc = "failed"

\* C10: while negotiate_saml has not returned a session in this run, none of
\* the Drive calls and none of the source enumeration calls has been issued.
C10_NoSyncWithoutSession ==
  ~authed_client => (issued \cap SyncCalls = {} /\ ~drive_service)
\* A run ended by a failed negotiation.
C10_Witness ==
  /\ pc = "failed"
  /\ ~authed_client
  /\ "saml_get" \in issued

\* C11 (as claimed): a fetch that fails, by raising or by an answer other than
\* 200, is followed by no new Drive item, and the items already there stay.
C11_FailedFetchCreatesNothing ==
  [][ /\ (pc = "download" /\ pc' = "failed") => driveFiles' = driveFiles
      /\ (pc = "upload" /\ g_status # 200) => driveFiles' = driveFiles ]_vars

\* C12: once the download or the upload of a video has raised, the run is
\* over: the only step left is the start of a new process, which issues
\* nothing and leaves the Drive as it is.
C12_TransferFailureHaltsRun ==
  /\ [](err \in {"ConnectionError", "HttpError"} => pc = "failed")
  /\ [][ pc = "failed" =>
           /\ pc' = "saml_get"
           /\ issued' = {}
           /\ enumerated' = {}
           /\ driveFiles' = driveFiles
           /\ driveFolders' = driveFolders ]_vars
\* An upload has raised with a later video and a later folder still to do.
C12_Witness ==
  /\ pc = "failed"
  /\ err = "HttpError"
  /\ vi < Len(videos.items)
  /\ fi < Len(folders)
  /\ Qualifies(folders[fi + 1])

\* C13 (as claimed): google_drive_auth never returns without having written
\* token.pickle in the call.
C13_AlwaysWritten == pc = "build" => token_written

\* C13 (amended): when google_drive_auth returns, token.pickle has been
\* written in the call if the credential was refreshed or newly granted, and
\* has not been written if it was loaded valid.
C13_WrittenWhenRenewed ==
  pc = "build" =>
    /\ creds \in {"refreshed", "granted"} =>
         (token_written /\ tokenFile = "present")
    /\ creds = "loaded" => (~token_written /\ tokenFile = "present")
\* A refreshed credential is returned.
C13_Witness ==
  /\ pc = "build"
  /\ creds = "refreshed"
  /\ token_written

\* The names of the modelled source folders that contain 'CSE', read off
\* SourceFolders by hand.
CSENames == {"CSE 143 Au21", "CSE 142", "CSE 490 TA"}
\* Folder i of the list is one the run has to synchronize.
Expected(i) ==
  /\ folders[i].SessionCount > 0
  /\ (~ONLY_SAVE_CSE_VIDEOS \/ folders[i].Name \in CSENames)
\* The places of the run inside the body of the folder loop.
InFolderBody ==
  pc \in {"get_videos", "dest_folder", "video_loop", "check", "download",
          "upload"}

\* C14: a folder's videos are listed exactly when it has sessions and either
\* the flag is off or its name contains 'CSE'; for any other folder the loop
\* body is never entered, so nothing is listed, created, checked or uploaded
\* for it.
C14_SynchronizedIffQualifies ==
  /\ \A i \in 1..Len(folders) :
       /\ i \in enumerated => (Expected(i) /\ i <= fi)
       /\ (Expected(i) /\ (i < fi \/ pc = "done")) => i \in enumerated
       /\ (\E k \in 1..Len(resolves) : resolves[k].folder = i) => Expected(i)
  /\ InFolderBody => (fi >= 1 /\ Expected(fi))
  /\ (fi >= 1 /\ ~Expected(fi)) => pc \in {"loop", "done"}
\* With the flag on, a run has ended that listed 'CSE 143 Au21' (5 sessions)
\* and passed over 'MATH 124' (5 sessions).
C14_Witness ==
  /\ pc = "done"
  /\ ONLY_SAVE_CSE_VIDEOS
  /\ \E i, j \in 1..Len(folders) :
       /\ folders[i].Name = "CSE 143 Au21" /\ folders[i].SessionCount = 5
       /\ i \in enumerated
       /\ folders[j].Name = "MATH 124" /\ folders[j].SessionCount = 5
       /\ j \notin enumerated

\* C15: when check_if_file_exists returns, its result is true exactly when
\* the Drive holds an item named item_name + '.mp4' whose parent is the given
\* folder.
C15_ExistsIffNamedUnderParent ==
  (pc = "check" /\ phase = "ret") =>
    (ret <=> \E f \in driveFiles :
               /\ f.name = videos.items[vi] \o ".mp4"
               /\ f.parent = folder_id)
\* The check answers false although an item of that name lies in another
\* folder.
C15_Witness ==
  /\ pc = "check"
  /\ phase = "ret"
  /\ ~ret
  /\ \E f \in driveFiles :
       f.name = videos.items[vi] \o ".mp4" /\ f.parent # folder_id

\* C16 (as claimed): a call of create_folder_if_not_exists in which no Drive
\* request has failed is in its first attempt and never in the retry
\* wrapper's wait, so that a folder it creates is returned from the create
\* response.
C16_AbsentFolderSingleAttempt ==
  (InCreateFolder /\ ~driveFailed) => (attempt = 1 /\ phase # "wait")

\* C17: the Drive never holds two items of one name under one folder, and the
\* run is about to fetch or upload a video only after an existence check for
\* it has answered false and while no item of its name lies in the destination
\* folder.
C17_NoDuplicateItems ==
  /\ \A f, g \in driveFiles :
       (f.name = g.name /\ f.parent = g.parent) => f.id = g.id
  /\ pc \in {"download", "upload"} =>
       /\ ~file_exists
       /\ ~\E f \in driveFiles :
            f.name = videos.items[vi] \o ".mp4" /\ f.parent = folder_id
\* A folder lists the name 'A' twice: the first was uploaded, the check for
\* the second has answered true and the second is passed over.
C17_Witness ==
  /\ pc = "video_loop"
  /\ videos.items = <<"A", "A">>
  /\ vi = 2
  /\ file_exists
  /\ folderUps = <<"A.mp4">>

\* C18: when the run has reached its end, every folder that qualifies and
\* whose listing answered 200 had its destination folder resolved, and for
\* every video of the listing that folder holds an item named
\* <video name>.mp4.
C18_DoneMeansAllPresent ==
  pc = "done" =>
    \A i \in 1..Len(folders) :
      (Expected(i) /\ folders[i].Status = 200) =>
        \E k \in 1..Len(resolves) :
          /\ resolves[k].folder = i
          /\ \A n \in 1..Len(folders[i].Results) :
               \E f \in driveFiles :
                 /\ f.name = folders[i].Results[n] \o ".mp4"
                 /\ f.parent = resolves[k].id
\* A run has ended in which the three videos of a folder were uploaded.
C18_Witness ==
  /\ pc = "done"
  /\ runUps >= 3
  /\ \E i \in 1..Len(folders) :
       folders[i].Results = <<"A", "B", "C">> /\ i \in synced

\* The destination folder of folder i has been resolved in this run.
Resolved(i) == \E k \in 1..Len(resolves) : resolves[k].folder = i

\* C19: the step that gets a non-200 listing goes back to the folder loop and
\* leaves the Drive as it was; a destination folder is resolved only for
\* folders whose listing answered 200, once for each of them, and the video
\* loop with its existence checks runs only after the current folder's
\* destination folder was resolved.
C19_SkippedFolderUntouched ==
  /\ [](/\ pc = "dest_folder" => folders[fi].Status = 200
        /\ \A k, l \in 1..Len(resolves) :
             /\ folders[resolves[k].folder].Status = 200
             /\ resolves[k].folder = resolves[l].folder => k = l
        /\ \A i \in enumerated :
             (folders[i].Status = 200 /\ (i < fi \/ pc = "done")) => Resolved(i)
        /\ pc \in {"video_loop", "check", "download", "upload"} =>
             /\ resolves # <<>>
             /\ resolves[Len(resolves)] = [folder |-> fi, id |-> folder_id])
  /\ [][ (pc = "get_videos" /\ folders[fi].Status # 200) =>
           /\ pc' = "loop"
           /\ driveFolders' = driveFolders
           /\ driveFiles' = driveFiles
           /\ resolves' = resolves ]_vars
\* The second folder's listing has just been refused; the first folder's
\* destination folder is the only one resolved.
C19_Witness ==
  /\ pc = "loop"
  /\ fi = 2
  /\ fi \in enumerated
  /\ folders[fi].Status # 200
  /\ Len(resolves) = 1
  /\ resolves[1].folder = 1

====
